---- MODULE Spec2Model ----
(***************************************************************************)
(* Model of the locally authored logic of the examples:                    *)
(*   - evaluate_formula       (examples/tools/math_calculator.py)          *)
(*   - contains_math_expression, math_guardrail                            *)
(*       (examples/agent_patterns/input_guardrails_v0.py and _v1.py)       *)
(*   - split_input_by_math_expressions (input_guardrails_v1.py)            *)
(*                                                                         *)
(* A Python str is a sequence of characters; a character is a one-element  *)
(* TLA+ string, a non-ASCII character is named by its code point.          *)
(***************************************************************************)
EXTENDS Integers, Sequences, FiniteSets, TLC

(***************************************************************************)
(* Characters and the character classes of Python's re module (str         *)
(* patterns, no re.ASCII flag).                                            *)
(***************************************************************************)
AsciiDigits == {"0", "1", "2", "3", "4", "5", "6", "7", "8", "9"}

\* ARABIC-INDIC DIGIT THREE: category Nd, so \d matches it, str.isdigit() is true
ArabicThree == "U+0663"

\* NO-BREAK SPACE: str.isspace() is true, so \s matches it and strip() removes it
NoBreakSpace == "U+00A0"

\* [a-zA-Z]
AsciiLetters ==
  {"a", "b", "c", "d", "e", "f", "g", "h", "i", "j", "k", "l", "m", "n", "o",
   "p", "q", "r", "s", "t", "u", "v", "w", "x", "y", "z",
   "A", "B", "C", "D", "E", "F", "G", "H", "I", "J", "K", "L", "M", "N", "O",
   "P", "Q", "R", "S", "T", "U", "V", "W", "X", "Y", "Z"}

\* \d of a str pattern: every Unicode decimal digit
ReDigit == AsciiDigits \cup {ArabicThree}

\* \s of a str pattern, and the characters str.strip() removes
ReSpace == {" ", "\t", "\n", NoBreakSpace}

\* the class with "=" added
ReOperatorOrEquals == {"+", "-", "*", "/", "="}

\* [\+\-\*/]
ReOperator == {"+", "-", "*", "/"}

Min(a, b) == IF a < b THEN a ELSE b

Max(a, b) == IF a > b THEN a ELSE b

SetMax(S) == CHOOSE x \in S : \A y \in S : y <= x

SetMin(S) == CHOOSE x \in S : \A y \in S : x <= y

\* s[i:j] of Python for 0 <= i <= j <= len(s)
Slice(s, i, j) == SubSeq(s, i + 1, j)

\* str.strip(): drops the leading and the trailing whitespace
Strip(s) ==
  LET keep == {i \in 1..Len(s) : s[i] \notin ReSpace}
  IN IF keep = {} THEN << >> ELSE SubSeq(s, SetMin(keep), SetMax(keep))

\* sep.join(parts)
RECURSIVE Join(_, _)
Join(sep, parts) ==
  IF Len(parts) = 0 THEN << >>
  ELSE IF Len(parts) = 1 THEN parts[1]
  ELSE parts[1] \o sep \o Join(sep, Tail(parts))

(***************************************************************************)
(* A backtracking matcher for the regular expressions of the sources. A    *)
(* pattern is a sequence of alternatives, an alternative a sequence of     *)
(* items [cls, q]: a character class with a quantifier "1", "*" or "+"     *)
(* (greedy), or the anchor "$". Positions are 1-based; a match result is   *)
(* the position after the match, NoMatch when there is none.               *)
(***************************************************************************)
NoMatch == 0

\* number of consecutive characters of cls in text from pos on
RECURSIVE RunLen(_, _, _)
RunLen(cls, text, pos) ==
  IF pos <= Len(text) /\ text[pos] \in cls
  THEN 1 + RunLen(cls, text, pos + 1)
  ELSE 0

\* $ without re.MULTILINE: at the end, or before a newline that ends the text
AtDollar(text, pos) ==
  \/ pos = Len(text) + 1
  \/ pos = Len(text) /\ text[pos] = "\n"

RECURSIVE MatchItems(_, _, _, _)
MatchItems(items, k, text, pos) ==
  IF k > Len(items) THEN pos
  ELSE
    LET it == items[k] IN
    IF it.q = "$"
    THEN IF AtDollar(text, pos) THEN MatchItems(items, k + 1, text, pos) ELSE NoMatch
    ELSE
      LET run == RunLen(it.cls, text, pos)
          lo == IF it.q = "*" THEN 0 ELSE 1
          hi == IF it.q = "1" THEN Min(run, 1) ELSE run
          ok == {n \in lo..hi : MatchItems(items, k + 1, text, pos + n) # NoMatch}
      IN IF ok = {} THEN NoMatch
         ELSE MatchItems(items, k + 1, text, pos + SetMax(ok))

\* the alternatives are tried in order at one position
RECURSIVE MatchAlts(_, _, _, _)
MatchAlts(alts, a, text, pos) ==
  IF a > Len(alts) THEN NoMatch
  ELSE LET e == MatchItems(alts[a], 1, text, pos)
       IN IF e # NoMatch THEN e ELSE MatchAlts(alts, a + 1, text, pos)

\* re.match(pattern, text): a match at the start of the text
ReMatch(alts, text) == MatchAlts(alts, 1, text, 1) # NoMatch

\* re.search(pattern, text): the leftmost position with a match, as [s, e]
\* with 0-based start s and end e (exclusive); << >> when there is none
SearchFrom(alts, text, pos) ==
  LET starts == {p \in pos..(Len(text) + 1) : MatchAlts(alts, 1, text, p) # NoMatch}
  IN IF starts = {} THEN << >>
     ELSE LET s == SetMin(starts)
          IN <<s - 1, MatchAlts(alts, 1, text, s) - 1>>

ReSearch(alts, text) == SearchFrom(alts, text, 1)

\* list(re.finditer(pattern, text)): the non-overlapping matches from left to
\* right, each scan resuming at the end of the previous match (the patterns
\* of the sources match no empty string)
RECURSIVE FindIterFrom(_, _, _)
FindIterFrom(alts, text, pos) ==
  LET m == SearchFrom(alts, text, pos)
  IN IF m = << >> THEN << >>
     ELSE <<m>> \o FindIterFrom(alts, text, m[2] + 1)

ReFindIter(alts, text) == FindIterFrom(alts, text, 1)

(***************************************************************************)
(* Python's eval() on the strings the whitelist of evaluate_formula lets   *)
(* through: the tokenizer, the expression grammar and the arithmetic of    *)
(* int and float. A value is [t, n, d]: t is its type, n/d the number in   *)
(* lowest terms for t = "int" and t = "float". "inexact" is a float the    *)
(* model does not compute (an irrational power), a raised exception is a   *)
(* value whose type is the exception's name.                               *)
(***************************************************************************)
PyExceptions == {"SyntaxError", "ZeroDivisionError", "TypeError"}

Val(t, n, d) == [t |-> t, n |-> n, d |-> d]

Exc(name) == Val(name, 0, 1)

IsExc(v) == v.t \in PyExceptions

IsExact(v) == v.t \in {"int", "float"}

IsNumber(v) == v.t \in {"int", "float", "inexact"}

Abs(x) == IF x < 0 THEN -x ELSE x

RECURSIVE Gcd(_, _)
Gcd(a, b) == IF b = 0 THEN a ELSE Gcd(b, a % b)

\* n/d in lowest terms with a positive denominator (d # 0)
Ratio(t, n, d) ==
  LET g == Gcd(Abs(n), Abs(d))
      sgn == IF d < 0 THEN -1 ELSE 1
  IN Val(t, sgn * (n \div g), sgn * (d \div g))

\* floor(n/d) for d > 0 (\div of TLA+ rounds down)
Floor(n, d) == n \div d

RECURSIVE IntPow(_, _)
IntPow(b, e) == IF e = 0 THEN 1 ELSE b * IntPow(b, e - 1)

\* the type of the result of + - * // on two numbers
Wider(a, b) == IF a.t = "int" /\ b.t = "int" THEN "int" ELSE "float"

\* a ** b on two exact numbers
PyPow(a, b) ==
  IF b.d = 1
  THEN IF b.n >= 0
       THEN Val(Wider(a, b), IntPow(a.n, b.n), IntPow(a.d, b.n))
       ELSE IF a.n = 0 THEN Exc("ZeroDivisionError")
            ELSE Ratio("float", IntPow(a.d, -b.n), IntPow(a.n, -b.n))
  ELSE IF a.n = 0
       THEN IF b.n > 0 THEN Val("float", 0, 1) ELSE Exc("ZeroDivisionError")
       ELSE IF a.n < 0 THEN Val("complex", 0, 1)
       ELSE IF a.n = a.d THEN Val("float", 1, 1)
       ELSE Val("inexact", 0, 1)

\* a / b of Python 2 on two ints, which rounds down
FloorDivOfInts(a, b) ==
  IF b.n = 0 THEN Exc("ZeroDivisionError")
  ELSE LET q == Ratio("float", a.n * b.d, a.d * b.n)
       IN IF a.t = "int" /\ b.t = "int" THEN Val("int", Floor(q.n, q.d), 1) ELSE q

\* a / b on two exact numbers: true division, a float
TrueDiv(a, b) ==
  IF b.n = 0 THEN Exc("ZeroDivisionError")
  ELSE Ratio("float", a.n * b.d, a.d * b.n)

\* a // b on two exact numbers: the quotient rounded down
FloorDiv(a, b) ==
  IF b.n = 0 THEN Exc("ZeroDivisionError")
  ELSE LET q == Ratio("float", a.n * b.d, a.d * b.n)
       IN Val(Wider(a, b), Floor(q.n, q.d), 1)

\* a op b on two exact numbers
ExactOp(op, a, b) ==
  CASE op = "+" -> Ratio(Wider(a, b), a.n * b.d + b.n * a.d, a.d * b.d)
    [] op = "-" -> Ratio(Wider(a, b), a.n * b.d - b.n * a.d, a.d * b.d)
    [] op = "*" -> Ratio(Wider(a, b), a.n * b.n, a.d * b.d)
    [] op = "/" -> TrueDiv(a, b)
    [] op = "//" -> FloorDiv(a, b)
    [] op = "**" -> PyPow(a, b)

IsZero(v) == IsExact(v) /\ v.n = 0

\* a op b: the operands are evaluated left to right, then the operator is applied
BinOp(op, a, b) ==
  IF IsExc(a) THEN a
  ELSE IF IsExc(b) THEN b
  ELSE IF IsExact(a) /\ IsExact(b) THEN ExactOp(op, a, b)
  ELSE IF IsNumber(a) /\ IsNumber(b)
       THEN IF op \in {"/", "//"} /\ IsZero(b) THEN Exc("ZeroDivisionError")
            ELSE IF op = "**" /\ IsZero(b) THEN Val("float", 1, 1)
            ELSE Val("inexact", 0, 1)
  ELSE IF a.t = "complex" \/ b.t = "complex"
       THEN IF ~ ({a.t, b.t} \subseteq {"int", "float", "inexact", "complex"})
            THEN Exc("TypeError")
            ELSE IF op = "//" THEN Exc("TypeError")
            ELSE IF op = "/" /\ IsZero(b) THEN Exc("ZeroDivisionError")
            ELSE Val("complex", 0, 1)
  ELSE IF a.t = "tuple" /\ b.t = "tuple" /\ op = "+" THEN Val("tuple", 0, 1)
  ELSE IF {a.t, b.t} = {"tuple", "int"} /\ op = "*" THEN Val("tuple", 0, 1)
  ELSE Exc("TypeError")

\* +a and -a
UnaryOp(op, a) ==
  IF IsExc(a) THEN a
  ELSE IF IsExact(a) THEN Val(a.t, IF op = "-" THEN -a.n ELSE a.n, a.d)
  ELSE IF a.t \in {"inexact", "complex"} THEN a
  ELSE Exc("TypeError")

\* f(arg): the callee and the argument are evaluated, then no value of these
\* types is callable
CallOp(f, arg) ==
  IF IsExc(f) THEN f
  ELSE IF IsExc(arg) THEN arg
  ELSE Exc("TypeError")

\* float(v): the conversion of line 82
PyFloat(v) ==
  IF IsExc(v) THEN v
  ELSE IF IsExact(v) THEN Val("float", v.n, v.d)
  ELSE IF v.t = "inexact" THEN v
  ELSE Exc("TypeError")

(***************************************************************************)
(* The tokenizer. A token is [k, s, v]: k = "num" with the literal's value *)
(* v, k = "op" with the operator s, or k = "err" for what the tokenizer    *)
(* rejects.                                                                *)
(***************************************************************************)
NoVal == Val("none", 0, 1)

NumTok(v) == [k |-> "num", s |-> "", v |-> v]

OpTok(s) == [k |-> "op", s |-> s, v |-> NoVal]

ErrTok == [k |-> "err", s |-> "", v |-> NoVal]

DigitVal(c) ==
  CASE c = "0" -> 0 [] c = "1" -> 1 [] c = "2" -> 2 [] c = "3" -> 3
    [] c = "4" -> 4 [] c = "5" -> 5 [] c = "6" -> 6 [] c = "7" -> 7
    [] c = "8" -> 8 [] c = "9" -> 9

\* the number a string of ASCII digits denotes
RECURSIVE DecVal(_)
DecVal(ds) ==
  IF Len(ds) = 0 THEN 0
  ELSE 10 * DecVal(SubSeq(ds, 1, Len(ds) - 1)) + DigitVal(ds[Len(ds)])

\* a decimal integer literal may not start with 0 unless it is all zeros
LeadingZeroOk(ds) == Len(ds) <= 1 \/ ds[1] # "0" \/ \A i \in 1..Len(ds) : ds[i] = "0"

\* the numeric literal at pos (a digit, or a point followed by a digit):
\* [tok, next]
LexNumber(s, pos) ==
  LET i == RunLen(AsciiDigits, s, pos)
      point == pos + i <= Len(s) /\ s[pos + i] = "."
      f == IF point THEN RunLen(AsciiDigits, s, pos + i + 1) ELSE 0
      ip == SubSeq(s, pos, pos + i - 1)
      fp == SubSeq(s, pos + i + 1, pos + i + f)
  IN IF point
     THEN [tok |-> NumTok(Ratio("float", DecVal(ip) * IntPow(10, f) + DecVal(fp),
                                IntPow(10, f))),
           next |-> pos + i + 1 + f]
     ELSE [tok |-> IF LeadingZeroOk(ip) THEN NumTok(Val("int", DecVal(ip), 1))
                   ELSE ErrTok,
           next |-> pos + i]

StartsNumber(s, pos) ==
  \/ s[pos] \in AsciiDigits
  \/ s[pos] = "." /\ pos < Len(s) /\ s[pos + 1] \in AsciiDigits

\* the operator at pos, the longest first
LexOperator(s, pos) ==
  LET two == IF pos < Len(s) THEN <<s[pos], s[pos + 1]>> ELSE << >>
      three == IF pos + 1 < Len(s) THEN <<s[pos], s[pos + 1], s[pos + 2]>> ELSE << >>
  IN IF three = <<".", ".", ".">> THEN [tok |-> OpTok("..."), next |-> pos + 3]
     ELSE IF two = <<"*", "*">> THEN [tok |-> OpTok("**"), next |-> pos + 2]
     ELSE IF two = <<"/", "/">> THEN [tok |-> OpTok("//"), next |-> pos + 2]
     ELSE [tok |-> OpTok(s[pos]), next |-> pos + 1]

\* the tokens of s from pos on; depth counts the open parentheses. Blanks
\* separate tokens; a newline does so inside parentheses only, elsewhere it
\* ends the expression, which the stripped text never allows; any other
\* character (a non-ASCII digit, a non-ASCII space) is invalid.
RECURSIVE Lex(_, _, _)
Lex(s, pos, depth) ==
  IF pos > Len(s) THEN << >>
  ELSE IF s[pos] \in {" ", "\t"} THEN Lex(s, pos + 1, depth)
  ELSE IF s[pos] = "\n"
       THEN IF depth > 0 THEN Lex(s, pos + 1, depth) ELSE <<ErrTok>>
  ELSE IF StartsNumber(s, pos)
       THEN LET n == LexNumber(s, pos) IN <<n.tok>> \o Lex(s, n.next, depth)
  ELSE IF s[pos] \in {"+", "-", "*", "/", "(", ")", "."}
       THEN LET o == LexOperator(s, pos)
                dd == IF o.tok.s = "(" THEN depth + 1
                      ELSE IF o.tok.s = ")" THEN Max(0, depth - 1)
                      ELSE depth
            IN <<o.tok>> \o Lex(s, o.next, dd)
  ELSE <<ErrTok>>

Tokenize(s) == Lex(s, 1, 0)

(***************************************************************************)
(* The expression grammar, with the value computed along the parse:        *)
(*   sum     ::= term sum*         sum*  ::= (("+" | "-") term)*           *)
(*   term    ::= factor term*      term* ::= (("*" | "/" | "//") factor)*  *)
(*   factor  ::= ("+" | "-") factor | power                                *)
(*   power   ::= primary ["**" factor]                                     *)
(*   primary ::= atom trailer*                                             *)
(*   trailer ::= "(" [["*" | "**"] sum] ")"                                *)
(*   atom    ::= NUMBER | "(" [sum] ")" | "..."                            *)
(* A parse result is [ok, v, p]: whether the text parses, the value (or    *)
(* the first exception of the evaluation), the next token.                 *)
(***************************************************************************)
Parsed(v, p) == [ok |-> TRUE, v |-> v, p |-> p]

ParseFail == [ok |-> FALSE, v |-> NoVal, p |-> 0]

IsOp(toks, p, ops) == p <= Len(toks) /\ toks[p].k = "op" /\ toks[p].s \in ops

\* Parse(nt, toks, p, acc): the nonterminal nt at token p; acc is the value
\* parsed so far in the repetitions ("sum*", "term*", "trailer*")
RECURSIVE Parse(_, _, _, _)
Parse(nt, toks, p, acc) ==
  CASE nt = "sum" ->
         LET t == Parse("term", toks, p, NoVal)
         IN IF t.ok THEN Parse("sum*", toks, t.p, t.v) ELSE ParseFail
    [] nt = "sum*" ->
         IF IsOp(toks, p, {"+", "-"})
         THEN LET r == Parse("term", toks, p + 1, NoVal)
              IN IF r.ok THEN Parse("sum*", toks, r.p, BinOp(toks[p].s, acc, r.v))
                 ELSE ParseFail
         ELSE Parsed(acc, p)
    [] nt = "term" ->
         LET f == Parse("factor", toks, p, NoVal)
         IN IF f.ok THEN Parse("term*", toks, f.p, f.v) ELSE ParseFail
    [] nt = "term*" ->
         IF IsOp(toks, p, {"*", "/", "//"})
         THEN LET r == Parse("factor", toks, p + 1, NoVal)
              IN IF r.ok THEN Parse("term*", toks, r.p, BinOp(toks[p].s, acc, r.v))
                 ELSE ParseFail
         ELSE Parsed(acc, p)
    [] nt = "factor" ->
         IF IsOp(toks, p, {"+", "-"})
         THEN LET f == Parse("factor", toks, p + 1, NoVal)
              IN IF f.ok THEN Parsed(UnaryOp(toks[p].s, f.v), f.p) ELSE ParseFail
         ELSE Parse("power", toks, p, NoVal)
    [] nt = "power" ->
         LET a == Parse("primary", toks, p, NoVal)
         IN IF a.ok /\ IsOp(toks, a.p, {"**"})
            THEN LET f == Parse("factor", toks, a.p + 1, NoVal)
                 IN IF f.ok THEN Parsed(BinOp("**", a.v, f.v), f.p) ELSE ParseFail
            ELSE a
    [] nt = "primary" ->
         LET a == Parse("atom", toks, p, NoVal)
         IN IF a.ok THEN Parse("trailer*", toks, a.p, a.v) ELSE ParseFail
    [] nt = "trailer*" ->
         IF IsOp(toks, p, {"("})
         THEN IF IsOp(toks, p + 1, {")"})
              THEN Parse("trailer*", toks, p + 2, CallOp(acc, NoVal))
              ELSE LET q == IF IsOp(toks, p + 1, {"*", "**"}) THEN p + 2 ELSE p + 1
                       arg == Parse("sum", toks, q, NoVal)
                   IN IF arg.ok /\ IsOp(toks, arg.p, {")"})
                      THEN Parse("trailer*", toks, arg.p + 1, CallOp(acc, arg.v))
                      ELSE ParseFail
         ELSE IF IsOp(toks, p, {"."}) THEN ParseFail
         ELSE Parsed(acc, p)
    [] nt = "atom" ->
         IF p > Len(toks) THEN ParseFail
         ELSE IF toks[p].k = "num" THEN Parsed(toks[p].v, p + 1)
         ELSE IF IsOp(toks, p, {"..."}) THEN Parsed(Val("ellipsis", 0, 1), p + 1)
         ELSE IF IsOp(toks, p, {"("})
              THEN IF IsOp(toks, p + 1, {")"}) THEN Parsed(Val("tuple", 0, 1), p + 2)
                   ELSE LET e == Parse("sum", toks, p + 1, NoVal)
                        IN IF e.ok /\ IsOp(toks, e.p, {")"}) THEN Parsed(e.v, e.p + 1)
                           ELSE ParseFail
         ELSE ParseFail

\* eval(formula): the value of the expression, or the exception raised. The
\* text is compiled first, so a syntax error precedes every other exception.
PyEval(s) ==
  LET toks == Tokenize(s)
      r == Parse("sum", toks, 1, NoVal)
  IN IF \E i \in 1..Len(toks) : toks[i].k = "err" THEN Exc("SyntaxError")
     ELSE IF r.ok /\ r.p = Len(toks) + 1 THEN r.v
     ELSE Exc("SyntaxError")

(***************************************************************************)
(* The regular expressions of the guardrail examples.                      *)
(***************************************************************************)
\* \d+\s*[\+\-\*/]\s*\d+
NumericBinaryOp ==
  <<[cls |-> ReDigit, q |-> "+"], [cls |-> ReSpace, q |-> "*"],
    [cls |-> ReOperator, q |-> "1"], [cls |-> ReSpace, q |-> "*"],
    [cls |-> ReDigit, q |-> "+"]>>

\* [a-zA-Z]\s*=\s*[\d\+\-\*/\s]+
Assignment ==
  <<[cls |-> AsciiLetters, q |-> "1"], [cls |-> ReSpace, q |-> "*"],
    [cls |-> {"="}, q |-> "1"], [cls |-> ReSpace, q |-> "*"],
    [cls |-> ReDigit \cup ReOperator \cup ReSpace, q |-> "+"]>>

\* the pattern without its second alternative
numeric_only_pattern == <<NumericBinaryOp>>

\* math_pattern of contains_math_expression: (A)|(B), two groups
contains_math_pattern == <<NumericBinaryOp, Assignment>>

\* math_pattern of split_input_by_math_expressions: (A|B), one group
split_math_pattern == <<NumericBinaryOp, Assignment>>

\* contains_math_expression(text): bool(re.search(math_pattern, text))
contains_math_expression(t) == ReSearch(contains_math_pattern, t) # << >>

(***************************************************************************)
(* evaluate_formula (math_calculator.py, lines 55-84) as a state machine.  *)
(***************************************************************************)
VARIABLES
  arg,        \* the string evaluate_formula is called with
  formula,    \* the parameter, reassigned by line 70
  pc,         \* the line evaluate_formula is at
  result,     \* the local result of line 81
  raised,     \* the exception raised inside the try block, "" when none
  evalCalls,  \* how many times eval() was called
  outcome     \* what the call gave its caller

calcVars == <<arg, formula, pc, result, raised, evalCalls, outcome>>

VARIABLES
  original,      \* the text the segmentation started from
  text,          \* the parameter of contains_math_expression and of the split
  found,         \* what contains_math_expression(text) returned
  matches,       \* list(re.finditer(math_pattern, text)), as spans
  mi,            \* the index of the next match of the for loop
  last_end,      \* the local last_end of the split
  split_result,  \* the local result of the split
  spc,           \* where the segmentation is
  round,         \* 1 for the text, 2 for the rejoined contents of its segments
  first_result   \* the result of round 1

splitVars ==
  <<original, text, found, matches, mi, last_end, split_result, spc, round, first_result>>

VARIABLES
  input,               \* the input of math_guardrail: a str or a list of items
  input_text,          \* the local input_text
  agentRuns,           \* how many times Runner.run(guardrail_agent, ...) ran
  is_math_homework,    \* the verdict of the guardrail agent's final output
  tripwire_triggered,  \* the tripwire_triggered of the returned output
  gpc                  \* the line math_guardrail is at

guardVars == <<input, input_text, agentRuns, is_math_homework, tripwire_triggered, gpc>>

VARIABLES
  input_data,   \* the list input_data of main
  user_input,   \* the message read by input("Enter a message: ")
  parts,        \* input_parts of the v1 loop
  part,         \* the index in parts of the part the v1 loop is at
  printed,      \* what main has printed for each run, and what tripped
  lpc           \* the line main is at

loopVars == <<input_data, user_input, parts, part, printed, lpc>>

vars == <<calcVars, splitVars, guardVars, loopVars>>

\* the machines that are not running stay as they are set up
CalcIdle ==
  /\ arg = << >> /\ formula = << >> /\ pc = "idle" /\ result = [t |-> "none", n |-> 0, d |-> 1]
  /\ raised = "" /\ evalCalls = 0
  /\ outcome = [kind |-> "none", exc |-> "", msg |-> "", value |-> [t |-> "none", n |-> 0, d |-> 1]]

SplitIdle ==
  /\ original = << >> /\ text = << >> /\ found = FALSE /\ matches = << >> /\ mi = 0
  /\ last_end = 0 /\ split_result = << >> /\ spc = "idle" /\ round = 0
  /\ first_result = << >>

GuardIdle ==
  /\ input = [kind |-> "str", text |-> << >>, items |-> << >>] /\ input_text = << >>
  /\ agentRuns = 0 /\ is_math_homework = FALSE /\ tripwire_triggered = FALSE
  /\ gpc = "idle"

LoopIdle ==
  /\ input_data = << >> /\ user_input = << >> /\ parts = << >> /\ part = 0
  /\ printed = << >> /\ lpc = "idle"

\* [\d\+\-\*/\(\)\.\s]
FormulaClass == ReDigit \cup {"+", "-", "*", "/", "(", ")", "."} \cup ReSpace

\* r'^[\d\+\-\*/\(\)\.\s]+$' under re.match
formula_pattern == << <<[cls |-> FormulaClass, q |-> "+"], [cls |-> {}, q |-> "$"]>> >>

InvalidCharacters == "Formula contains invalid characters"

ErrorEvaluating == "Error evaluating formula"

NoOutcome == [kind |-> "none", exc |-> "", msg |-> "", value |-> NoVal]

Returned(v) == [kind |-> "return", exc |-> "", msg |-> "", value |-> v]

Raised(exc, msg) == [kind |-> "raise", exc |-> exc, msg |-> msg, value |-> NoVal]

\* "except Exception": SyntaxError, ZeroDivisionError and TypeError all derive
\* from Exception
CatchesSyntaxErrorOnly(exc) == exc = "SyntaxError"

Catches(exc) == exc \in PyExceptions

\* line 70: formula = formula.strip()
StripFormula ==
  /\ pc = "strip"
  /\ formula' = Strip(formula)
  /\ pc' = "validate"
  /\ UNCHANGED <<arg, result, raised, evalCalls, outcome, splitVars, guardVars, loopVars>>

\* lines 75-76: the whitelist rejects the formula
RejectFormula ==
  /\ pc = "validate"
  /\ ~ ReMatch(formula_pattern, formula)
  /\ outcome' = Raised("ValueError", InvalidCharacters)
  /\ pc' = "done"
  /\ UNCHANGED <<arg, formula, result, raised, evalCalls, splitVars, guardVars, loopVars>>

\* line 75, the whitelist accepts the formula; line 81: result = eval(formula)
EvalFormula ==
  /\ pc = "validate"
  /\ ReMatch(formula_pattern, formula)
  /\ evalCalls' = evalCalls + 1
  /\ LET r == PyEval(formula)
     IN IF IsExc(r)
        THEN /\ raised' = r.t
             /\ pc' = "except"
             /\ UNCHANGED result
        ELSE /\ result' = r
             /\ pc' = "float"
             /\ UNCHANGED raised
  /\ UNCHANGED <<arg, formula, outcome, splitVars, guardVars, loopVars>>

\* line 82: return float(result)
ReturnFloat ==
  /\ pc = "float"
  /\ LET v == PyFloat(result)
     IN IF IsExc(v)
        THEN /\ raised' = v.t
             /\ pc' = "except"
             /\ UNCHANGED outcome
        ELSE /\ outcome' = Returned(v)
             /\ pc' = "done"
             /\ UNCHANGED raised
  /\ UNCHANGED <<arg, formula, result, evalCalls, splitVars, guardVars, loopVars>>

\* lines 83-84: except Exception as e: raise ValueError(...)
ExceptClause ==
  /\ pc = "except"
  /\ outcome' = IF Catches(raised) THEN Raised("ValueError", ErrorEvaluating)
                ELSE Raised(raised, "")
  /\ pc' = "done"
  /\ UNCHANGED <<arg, formula, result, raised, evalCalls, splitVars, guardVars, loopVars>>

(***************************************************************************)
(* The formulas evaluate_formula is called with.                           *)
(***************************************************************************)
\* the longest formula of the exhaustive part
MaxLen == 3

\* the longest run of operator characters and blanks between two operands
MaxOpLen == 3

\* the largest operand of the generated expressions
MaxNum == 2

CalcAlphabet ==
  {"0", "2", "+", "-", "*", "/", "(", ")", ".", " ", "\n", "a", ArabicThree, NoBreakSpace}

StringsOver(alphabet, n) == UNION {[1..k -> alphabet] : k \in 0..n}

\* the formulas of tests/test_math_calculator.py, lines 75-115
TestFormulas ==
  {<<"2", " ", "+", " ", "3">>,
   <<"1", "0", " ", "-", " ", "3">>,
   <<"4", " ", "*", " ", "5">>,
   <<"2", "0", " ", "/", " ", "4">>,
   <<"(", "2", "+", "3", ")", "*", "2", " ", "/", " ", "5">>,
   <<"1", "0", " ", "+", " ", "5", " ", "*", " ", "3">>,
   <<"(", "1", "0", " ", "+", " ", "5", ")", " ", "*", " ", "3">>,
   <<"1", "0", "0", " ", "-", " ", "5", "0", " ", "*", " ", "2", " ", "+", " ", "1", "0">>,
   <<"(", "1", "0", "0", " ", "-", " ", "5", "0", ")", " ", "*", " ", "2", " ", "+", " ", "1", "0">>,
   <<"2", ".", "5", " ", "+", " ", "3", ".", "5">>,
   <<"1", "0", ".", "5", " ", "/", " ", "2">>,
   <<"3", ".", "5", " ", "*", " ", "2">>,
   <<"2", " ", "+", " ", "3", ";", " ", "i", "m", "p", "o", "r", "t", " ", "o", "s">>,
   <<"2", " ", "+", " ", "a", "b", "c">>,
   <<"2", " ", "+", " ", "+", " ", "3">>,
   <<"1", "0", " ", "/", " ", "0">>}

\* str(n) for n >= 0
RECURSIVE DecStr(_)
DecStr(n) ==
  LET digits == <<"0", "1", "2", "3", "4", "5", "6", "7", "8", "9">>
  IN IF n < 10 THEN <<digits[n + 1]>> ELSE DecStr(n \div 10) \o <<digits[(n % 10) + 1]>>

Operands == {DecStr(n) : n \in 0..MaxNum}

\* two operands with any short run of operator characters and blanks between
BinaryForms ==
  {a \o o \o b : a \in Operands, b \in Operands,
                 o \in StringsOver(ReOperator \cup {" "}, MaxOpLen)}

\* three operands and two operators, ungrouped or grouped by parentheses
TernaryForms ==
  LET ops == {<<c>> : c \in ReOperator} IN
  UNION {{a \o o1 \o b \o o2 \o c,
          <<"(">> \o a \o o1 \o b \o <<")">> \o o2 \o c,
          a \o o1 \o <<"(">> \o b \o o2 \o c \o <<")">>} :
         a \in Operands, b \in Operands, c \in Operands, o1 \in ops, o2 \in ops}

Formulas == StringsOver(CalcAlphabet, MaxLen) \cup TestFormulas \cup BinaryForms \cup TernaryForms

InitCalc ==
  /\ arg \in Formulas
  /\ formula = arg
  /\ pc = "strip"
  /\ result = NoVal
  /\ raised = ""
  /\ evalCalls = 0
  /\ outcome = NoOutcome
  /\ SplitIdle
  /\ GuardIdle
  /\ LoopIdle

NextCalc ==
  \/ StripFormula
  \/ RejectFormula
  \/ EvalFormula
  \/ ReturnFloat
  \/ ExceptClause

SpecCalc == InitCalc /\ [][NextCalc]_vars

(***************************************************************************)
(* contains_math_expression (input_guardrails_v1.py, lines 69-72) and      *)
(* split_input_by_math_expressions (lines 97-124) applied to a text, and   *)
(* then to the contents of the segments rejoined with single blanks.       *)
(***************************************************************************)
Segment(type, content) == [type |-> type, content |-> content]

\* lines 108-117 without the two strip() calls
MatchSegmentsUntrimmed(t, last, m) ==
  (IF m[1] > last /\ Slice(t, last, m[1]) # << >>
   THEN <<Segment("normal", Slice(t, last, m[1]))>> ELSE << >>)
  \o (IF Slice(t, m[1], m[2]) # << >>
      THEN <<Segment("math", Slice(t, m[1], m[2]))>> ELSE << >>)

\* lines 108-117: what one match m = (start, end) appends to result
MatchSegments(t, last, m) ==
  LET start == m[1]
      end == m[2]
      normal_text == Strip(Slice(t, last, start))
      math_text == Strip(Slice(t, start, end))
  IN (IF start > last /\ normal_text # << >>
      THEN <<Segment("normal", normal_text)>> ELSE << >>)
     \o (IF math_text # << >> THEN <<Segment("math", math_text)>> ELSE << >>)

\* lines 120-123: what the text after the last match appends to result
RestSegments(t, last) ==
  LET normal_text == Strip(Slice(t, last, Len(t)))
  IN IF last < Len(t) /\ normal_text # << >>
     THEN <<Segment("normal", normal_text)>> ELSE << >>

\* line 72 (line 80 of math_guardrail uses it)
ContainsMath ==
  /\ spc = "contains"
  /\ found' = contains_math_expression(text)
  /\ spc' = "split"
  /\ UNCHANGED <<original, text, matches, mi, last_end, split_result, round, first_result>>
  /\ UNCHANGED <<calcVars, guardVars, loopVars>>

\* lines 103-106
SplitStart ==
  /\ spc = "split"
  /\ matches' = ReFindIter(split_math_pattern, text)
  /\ split_result' = << >>
  /\ last_end' = 0
  /\ mi' = 1
  /\ spc' = "loop"
  /\ UNCHANGED <<original, text, found, round, first_result>>
  /\ UNCHANGED <<calcVars, guardVars, loopVars>>

\* lines 107-118: one iteration of the for loop
SplitMatch ==
  /\ spc = "loop"
  /\ mi <= Len(matches)
  /\ split_result' = split_result \o MatchSegments(text, last_end, matches[mi])
  /\ last_end' = matches[mi][2]
  /\ mi' = mi + 1
  /\ UNCHANGED <<original, text, found, matches, spc, round, first_result>>
  /\ UNCHANGED <<calcVars, guardVars, loopVars>>

\* lines 119-124: the loop is over
SplitRest ==
  /\ spc = "loop"
  /\ mi > Len(matches)
  /\ split_result' = split_result \o RestSegments(text, last_end)
  /\ spc' = "return"
  /\ UNCHANGED <<original, text, found, matches, mi, last_end, round, first_result>>
  /\ UNCHANGED <<calcVars, guardVars, loopVars>>

Contents(segs) == [i \in 1..Len(segs) |-> segs[i].content]

\* the contents of the segments, rejoined with single blanks, are segmented
Resegment ==
  /\ spc = "return"
  /\ round = 1
  /\ first_result' = split_result
  /\ text' = Join(<<" ">>, Contents(split_result))
  /\ round' = 2
  /\ spc' = "contains"
  /\ UNCHANGED <<original, found, matches, mi, last_end, split_result>>
  /\ UNCHANGED <<calcVars, guardVars, loopVars>>

\* the longest text of the exhaustive part
MaxTextLen == 5

TextAlphabet == {"1", "+", "x", "=", " ", "?"}

\* the texts of the sources: the sample run of main (lines 177-180) and the
\* examples of the comment of line 70
SampleCapitalQuestion ==
  <<"W", "h", "a", "t", "'", "s", " ", "t", "h", "e", " ", "c", "a", "p",
    "i", "t", "a", "l", " ", "o", "f", " ", "C", "a", "l", "i", "f", "o",
    "r", "n", "i", "a", "?">>

SampleMathQuestion ==
  <<"C", "a", "n", " ", "y", "o", "u", " ", "h", "e", "l", "p", " ", "m",
    "e", " ", "s", "o", "l", "v", "e", " ", "f", "o", "r", " ", "x", ":", " ",
    "2", "x", " ", "+", " ", "5", " ", "=", " ", "1", "1">>

SourceTexts ==
  {SampleCapitalQuestion,
   SampleMathQuestion,
   <<"2", " ", "+", " ", "2">>,
   <<"x", " ", "=", " ", "3", " ", "*", " ", "7">>}

Texts == StringsOver(TextAlphabet, MaxTextLen) \cup SourceTexts

InitSplit ==
  /\ original \in Texts
  /\ text = original
  /\ found = FALSE
  /\ matches = << >>
  /\ mi = 0
  /\ last_end = 0
  /\ split_result = << >>
  /\ spc = "contains"
  /\ round = 1
  /\ first_result = << >>
  /\ CalcIdle
  /\ GuardIdle
  /\ LoopIdle

NextSplit ==
  \/ ContainsMath
  \/ SplitStart
  \/ SplitMatch
  \/ SplitRest
  \/ Resegment

SpecSplit == InitSplit /\ [][NextSplit]_vars

(***************************************************************************)
(* math_guardrail (input_guardrails_v0.py and input_guardrails_v1.py,      *)
(* lines 62-94). Its input is a str, [kind |-> "str", text], or a list of  *)
(* items, [kind |-> "list", items]; an item is [has, content]: whether the *)
(* dict has the key "content", and str() of its value.                     *)
(***************************************************************************)
StrInput(t) == [kind |-> "str", text |-> t, items |-> << >>]

ListInput(items) == [kind |-> "list", text |-> << >>, items |-> items]

Item(c) == [has |-> TRUE, content |-> c]

ItemWithoutContent == [has |-> FALSE, content |-> << >>]

\* str(item.get("content", ""))
ItemText(item) == IF item.has THEN item.content ELSE << >>

\* the items joined without a separator
InputTextUnseparated(in) ==
  IF in.kind = "list"
  THEN Join(<< >>, [i \in 1..Len(in.items) |-> ItemText(in.items[i])])
  ELSE in.text

\* lines 75-78: the input as one string
InputText(in) ==
  IF in.kind = "list"
  THEN Join(<<" ">>, [i \in 1..Len(in.items) |-> ItemText(in.items[i])])
  ELSE in.text

\* lines 75-78
NormalizeInput ==
  /\ gpc = "normalize"
  /\ input_text' = InputText(input)
  /\ gpc' = "check"
  /\ UNCHANGED <<input, agentRuns, is_math_homework, tripwire_triggered>>
  /\ UNCHANGED <<calcVars, splitVars, loopVars>>

\* lines 80-85: the regex finds a math expression
TripOnMathExpression ==
  /\ gpc = "check"
  /\ contains_math_expression(input_text)
  /\ tripwire_triggered' = TRUE
  /\ gpc' = "done"
  /\ UNCHANGED <<input, input_text, agentRuns, is_math_homework>>
  /\ UNCHANGED <<calcVars, splitVars, loopVars>>

\* lines 88-89: the guardrail agent runs and gives its verdict
RunGuardrailAgent ==
  /\ gpc = "check"
  /\ ~ contains_math_expression(input_text)
  /\ agentRuns' = agentRuns + 1
  /\ is_math_homework' \in BOOLEAN
  /\ gpc' = "agent_done"
  /\ UNCHANGED <<input, input_text, tripwire_triggered>>
  /\ UNCHANGED <<calcVars, splitVars, loopVars>>

\* lines 91-94
ReturnAgentVerdict ==
  /\ gpc = "agent_done"
  /\ tripwire_triggered' = is_math_homework
  /\ gpc' = "done"
  /\ UNCHANGED <<input, input_text, agentRuns, is_math_homework>>
  /\ UNCHANGED <<calcVars, splitVars, loopVars>>

\* the longest list of items
MaxItems == 2

\* the contents of the items, and the str inputs
Fragments ==
  {<< >>, <<"1">>, <<"1", "+">>, <<"+", "1">>, <<"1", "+", "1">>, <<"x">>,
   <<"x", "=">>, <<"=", "1">>, <<"=">>, <<" ">>, <<"h", "i">>}

Items == {Item(c) : c \in Fragments} \cup {ItemWithoutContent}

GuardrailInputs ==
  {StrInput(t) : t \in Fragments \cup SourceTexts}
  \cup {ListInput(l) : l \in UNION {[1..k -> Items] : k \in 0..MaxItems}}

InitGuard ==
  /\ input \in GuardrailInputs
  /\ input_text = << >>
  /\ agentRuns = 0
  /\ is_math_homework = FALSE
  /\ tripwire_triggered = FALSE
  /\ gpc = "normalize"
  /\ CalcIdle
  /\ SplitIdle
  /\ LoopIdle

NextGuard ==
  \/ NormalizeInput
  \/ TripOnMathExpression
  \/ RunGuardrailAgent
  \/ ReturnAgentVerdict

SpecGuard == InitGuard /\ [][NextGuard]_vars

(***************************************************************************)
(* The run loop of input_guardrails_v0.py (main, lines 100-136).           *)
(* Runner.run(agent, input_data) calls the input guardrail math_guardrail  *)
(* with input_data; a triggered tripwire makes it raise                    *)
(* InputGuardrailTripwireTriggered, and otherwise it returns a result      *)
(* whose to_input_list() is input_data followed by the agent's answer. The *)
(* content of a message is kept as the text str() gives for it.            *)
(***************************************************************************)
\* line 129
RefusalMessage ==
  <<"S", "o", "r", "r", "y", ",", " ", "I", " ", "c", "a", "n", "'", "t",
    " ", "h", "e", "l", "p", " ", "y", "o", "u", " ", "w", "i", "t", "h",
    " ", "y", "o", "u", "r", " ", "m", "a", "t", "h", " ", "h", "o", "m",
    "e", "w", "o", "r", "k", ".">>

Message(role, content) == [role |-> role, content |-> content]

\* the list given to Runner.run as the input of the guardrail
AsInput(msgs) == ListInput([i \in 1..Len(msgs) |-> Item(msgs[i].content)])

\* one run as the terminal shows it: the message entered, the text printed
\* for it, and what tripped the guardrail ("regex", "agent" or "none")
Shown(said, shown, by) == [said |-> said, text |-> shown, by |-> by]

\* the guardrail result says what tripped: the regex output of lines 82-85
\* is returned before the guardrail agent has run
TrippedBy == IF agentRuns = 0 THEN "regex" ELSE "agent"

\* the refusal replaces the last message of input_data
AfterRefusalInPlace(data) ==
  SubSeq(data, 1, Len(data) - 1) \o <<Message("assistant", RefusalMessage)>>

\* lines 131-136
AfterRefusal(data) == Append(data, Message("assistant", RefusalMessage))

\* the most runs of one session
MaxTurns == 3

\* the messages the user enters
UserMessages ==
  {<<"1", "+", "1">>, <<"x", "=">>, <<"1", "+">>, <<"h", "i">>}

\* the final outputs of the agent
AgentAnswers == {<<"o", "k">>, <<"2">>}

\* lines 111-121: a message is read and appended to input_data
V0ReadInput ==
  /\ lpc = "prompt"
  /\ Len(printed) < MaxTurns
  /\ \E m \in UserMessages :
       /\ user_input' = m
       /\ input_data' = Append(input_data, Message("user", m))
  /\ lpc' = "run"
  /\ UNCHANGED <<parts, part, printed>>
  /\ UNCHANGED <<calcVars, splitVars, guardVars>>

\* lines 111-114: the empty message ends the loop
V0Exit ==
  /\ lpc = "prompt"
  /\ user_input' = << >>
  /\ lpc' = "exit"
  /\ UNCHANGED <<input_data, parts, part, printed>>
  /\ UNCHANGED <<calcVars, splitVars, guardVars>>

\* line 123: Runner.run(agent, input_data) calls math_guardrail
V0StartRun ==
  /\ lpc = "run"
  /\ input' = AsInput(input_data)
  /\ input_text' = << >>
  /\ agentRuns' = 0
  /\ is_math_homework' = FALSE
  /\ tripwire_triggered' = FALSE
  /\ gpc' = "normalize"
  /\ lpc' = "guardrail"
  /\ UNCHANGED <<input_data, user_input, parts, part, printed>>
  /\ UNCHANGED <<calcVars, splitVars>>

\* lines 123-126: no tripwire, the answer is printed and the result becomes
\* the next input
V0UseResult ==
  /\ lpc = "guardrail"
  /\ gpc = "done"
  /\ ~ tripwire_triggered
  /\ \E a \in AgentAnswers :
       /\ printed' = Append(printed, Shown(user_input, a, "none"))
       /\ input_data' = Append(input_data, Message("assistant", a))
  /\ lpc' = "prompt"
  /\ gpc' = "idle"
  /\ UNCHANGED <<user_input, parts, part>>
  /\ UNCHANGED <<input, input_text, agentRuns, is_math_homework, tripwire_triggered>>
  /\ UNCHANGED <<calcVars, splitVars>>

\* lines 127-136: the tripwire was triggered
V0Refuse ==
  /\ lpc = "guardrail"
  /\ gpc = "done"
  /\ tripwire_triggered
  /\ printed' = Append(printed, Shown(user_input, RefusalMessage, TrippedBy))
  /\ input_data' = AfterRefusal(input_data)
  /\ lpc' = "prompt"
  /\ gpc' = "idle"
  /\ UNCHANGED <<user_input, parts, part>>
  /\ UNCHANGED <<input, input_text, agentRuns, is_math_homework, tripwire_triggered>>
  /\ UNCHANGED <<calcVars, splitVars>>

\* line 107
InitV0 ==
  /\ input_data = << >>
  /\ user_input = << >>
  /\ parts = << >>
  /\ part = 0
  /\ printed = << >>
  /\ lpc = "prompt"
  /\ CalcIdle
  /\ SplitIdle
  /\ GuardIdle

NextV0 ==
  \/ V0ReadInput
  \/ V0Exit
  \/ V0StartRun
  \/ NormalizeInput
  \/ TripOnMathExpression
  \/ RunGuardrailAgent
  \/ ReturnAgentVerdict
  \/ V0UseResult
  \/ V0Refuse

SpecV0 == InitV0 /\ [][NextV0]_vars

(***************************************************************************)
(* The run loop of input_guardrails_v1.py (main, lines 128-172): the       *)
(* message is split, and every part is sent alone to Runner.run.           *)
(***************************************************************************)
\* the messages the user enters in the v1 loop
V1Messages ==
  {<<"1", "+", "1">>,
   <<"h", "i">>,
   <<"h", "i", " ", "1", "+", "1", "?">>,
   <<"x", "=", "1">>,
   <<"x", " ", "=", " ", "?">>,
   <<" ">>}

\* lines 139-145: a message is read and split_input_by_math_expressions is
\* called with it
V1ReadInput ==
  /\ lpc = "prompt"
  /\ Len(printed) < MaxTurns
  /\ \E m \in V1Messages :
       /\ user_input' = m
       /\ original' = m
       /\ text' = m
  /\ round' = 0
  /\ spc' = "split"
  /\ lpc' = "split"
  /\ UNCHANGED <<found, matches, mi, last_end, split_result, first_result>>
  /\ UNCHANGED <<input_data, parts, part, printed>>
  /\ UNCHANGED <<calcVars, guardVars>>

\* lines 139-142: the empty message ends the loop
V1Exit ==
  /\ lpc = "prompt"
  /\ user_input' = << >>
  /\ lpc' = "exit"
  /\ UNCHANGED <<input_data, parts, part, printed>>
  /\ UNCHANGED <<calcVars, splitVars, guardVars>>

\* lines 145-146: the split has returned, the for loop starts
V1TakeParts ==
  /\ lpc = "split"
  /\ spc = "return"
  /\ parts' = split_result
  /\ part' = 1
  /\ spc' = "idle"
  /\ lpc' = "parts"
  /\ UNCHANGED <<original, text, found, matches, mi, last_end, split_result, round, first_result>>
  /\ UNCHANGED <<input_data, user_input, printed>>
  /\ UNCHANGED <<calcVars, guardVars>>

\* lines 146-159: Runner.run(agent, single_input_data) calls math_guardrail
\* with the one message made of the part
V1StartRun ==
  /\ lpc = "parts"
  /\ part <= Len(parts)
  /\ input' = AsInput(<<Message("user", parts[part].content)>>)
  /\ input_text' = << >>
  /\ agentRuns' = 0
  /\ is_math_homework' = FALSE
  /\ tripwire_triggered' = FALSE
  /\ gpc' = "normalize"
  /\ lpc' = "guardrail"
  /\ UNCHANGED <<input_data, user_input, parts, part, printed>>
  /\ UNCHANGED <<calcVars, splitVars>>

\* lines 157-161: no tripwire, the answer is printed and the result becomes
\* input_data
V1UseResult ==
  /\ lpc = "guardrail"
  /\ gpc = "done"
  /\ ~ tripwire_triggered
  /\ \E a \in AgentAnswers :
       /\ printed' = Append(printed, Shown(parts[part].content, a, "none"))
       /\ input_data' = <<Message("user", parts[part].content), Message("assistant", a)>>
  /\ part' = part + 1
  /\ lpc' = "parts"
  /\ gpc' = "idle"
  /\ UNCHANGED <<user_input, parts>>
  /\ UNCHANGED <<input, input_text, agentRuns, is_math_homework, tripwire_triggered>>
  /\ UNCHANGED <<calcVars, splitVars>>

\* lines 162-170: the tripwire was triggered
V1Refuse ==
  /\ lpc = "guardrail"
  /\ gpc = "done"
  /\ tripwire_triggered
  /\ printed' = Append(printed, Shown(parts[part].content, RefusalMessage, TrippedBy))
  /\ input_data' = AfterRefusal(input_data)
  /\ part' = part + 1
  /\ lpc' = "parts"
  /\ gpc' = "idle"
  /\ UNCHANGED <<user_input, parts>>
  /\ UNCHANGED <<input, input_text, agentRuns, is_math_homework, tripwire_triggered>>
  /\ UNCHANGED <<calcVars, splitVars>>

\* line 172: the for loop is over
V1EndMessage ==
  /\ lpc = "parts"
  /\ part > Len(parts)
  /\ input_data' = << >>
  /\ lpc' = "prompt"
  /\ UNCHANGED <<user_input, parts, part, printed>>
  /\ UNCHANGED <<calcVars, splitVars, guardVars>>

\* line 135
InitV1 ==
  /\ input_data = << >>
  /\ user_input = << >>
  /\ parts = << >>
  /\ part = 0
  /\ printed = << >>
  /\ lpc = "prompt"
  /\ CalcIdle
  /\ SplitIdle
  /\ GuardIdle

NextV1 ==
  \/ V1ReadInput
  \/ V1Exit
  \/ SplitStart
  \/ SplitMatch
  \/ SplitRest
  \/ V1TakeParts
  \/ V1StartRun
  \/ NormalizeInput
  \/ TripOnMathExpression
  \/ RunGuardrailAgent
  \/ ReturnAgentVerdict
  \/ V1UseResult
  \/ V1Refuse
  \/ V1EndMessage

SpecV1 == InitV1 /\ [][NextV1]_vars

(***************************************************************************)
(* Conventional arithmetic, the yardstick of the claims about              *)
(* evaluate_formula: the value of an expression over numeric literals,     *)
(* + - * / and parentheses, defined by splitting it at its last operator   *)
(* of lowest precedence outside parentheses. A sign may open an            *)
(* expression; two operators in a row are not an expression. A conventional*)
(* value is [st, n, d]: st = "value" with the number n/d, "undefined" for  *)
(* a division by zero, "invalid" for what is no expression.                *)
(***************************************************************************)
\* the AllowedCharacterSet of the specification: {0-9, +, -, *, /, (, ), ., whitespace}
AllowedCharacterSet == AsciiDigits \cup {"+", "-", "*", "/", "(", ")", "."} \cup ReSpace

OnlyAllowed(s) == \A i \in 1..Len(s) : s[i] \in AllowedCharacterSet

ConvNum(n, d) == [k |-> "num", s |-> "", n |-> n, d |-> d]

ConvOp(c) == [k |-> "op", s |-> c, n |-> 0, d |-> 1]

ConvErr == [k |-> "err", s |-> "", n |-> 0, d |-> 1]

\* The tokens of an expression. Literals are digits with an optional point,
\* read as decimal numbers. strict = FALSE: any whitespace separates tokens
\* and an integer may carry leading zeros; strict = TRUE: only blanks and tabs
\* separate tokens and an integer of several digits does not start with 0.
RECURSIVE ConvTokens(_, _, _)
ConvTokens(s, pos, strict) ==
  IF pos > Len(s) THEN << >>
  ELSE IF s[pos] \in (IF strict THEN {" ", "\t"} ELSE ReSpace)
       THEN ConvTokens(s, pos + 1, strict)
  ELSE IF s[pos] \in {"+", "-", "*", "/", "(", ")"}
       THEN <<ConvOp(s[pos])>> \o ConvTokens(s, pos + 1, strict)
  ELSE IF s[pos] \in AsciiDigits \/ (s[pos] = "." /\ pos < Len(s) /\ s[pos + 1] \in AsciiDigits)
       THEN LET i == RunLen(AsciiDigits, s, pos)
                point == pos + i <= Len(s) /\ s[pos + i] = "."
                f == IF point THEN RunLen(AsciiDigits, s, pos + i + 1) ELSE 0
                whole == DecVal(SubSeq(s, pos, pos + i - 1))
                frac == DecVal(SubSeq(s, pos + i + 1, pos + i + f))
                last == pos + i + (IF point THEN 1 ELSE 0) + f
                padded == ~ point /\ i > 1 /\ s[pos] = "0"
            IN <<IF strict /\ padded THEN ConvErr
                 ELSE ConvNum(whole * IntPow(10, f) + frac, IntPow(10, f))>>
               \o ConvTokens(s, last, strict)
  ELSE <<ConvErr>>

\* the number of parentheses open before token i
RECURSIVE DepthBefore(_, _)
DepthBefore(toks, i) ==
  IF i <= 1 THEN 0
  ELSE DepthBefore(toks, i - 1)
       + (IF toks[i - 1].s = "(" THEN 1 ELSE IF toks[i - 1].s = ")" THEN -1 ELSE 0)

Balanced(toks) ==
  /\ \A i \in 1..Len(toks) + 1 : DepthBefore(toks, i) >= 0
  /\ DepthBefore(toks, Len(toks) + 1) = 0

TopLevel(toks, ops) ==
  {i \in 1..Len(toks) : toks[i].k = "op" /\ toks[i].s \in ops /\ DepthBefore(toks, i) = 0}

ConvValue(n, d) == [st |-> "value", n |-> n, d |-> d]

ConvInvalid == [st |-> "invalid", n |-> 0, d |-> 1]

ConvUndefined == [st |-> "undefined", n |-> 0, d |-> 1]

ConvApply(op, l, r) ==
  IF l.st = "invalid" \/ r.st = "invalid" THEN ConvInvalid
  ELSE IF l.st = "undefined" \/ r.st = "undefined" THEN ConvUndefined
  ELSE CASE op = "+" -> ConvValue(l.n * r.d + r.n * l.d, l.d * r.d)
         [] op = "-" -> ConvValue(l.n * r.d - r.n * l.d, l.d * r.d)
         [] op = "*" -> ConvValue(l.n * r.n, l.d * r.d)
         [] op = "/" -> IF r.n = 0 THEN ConvUndefined ELSE ConvValue(l.n * r.d, l.d * r.n)

RECURSIVE ConvEval(_)
ConvEval(toks) ==
  LET n == Len(toks)
      add == TopLevel(toks, {"+", "-"})
      mul == TopLevel(toks, {"*", "/"})
  IN IF n = 0 \/ (\E i \in 1..n : toks[i].k = "err") \/ ~ Balanced(toks) THEN ConvInvalid
     ELSE IF add # {}
          THEN LET i == SetMax(add)
               IN IF i = 1
                  THEN ConvApply(toks[1].s, ConvValue(0, 1), ConvEval(SubSeq(toks, 2, n)))
                  ELSE ConvApply(toks[i].s, ConvEval(SubSeq(toks, 1, i - 1)),
                                 ConvEval(SubSeq(toks, i + 1, n)))
     ELSE IF mul # {}
          THEN LET i == SetMax(mul)
               IN ConvApply(toks[i].s, ConvEval(SubSeq(toks, 1, i - 1)),
                            ConvEval(SubSeq(toks, i + 1, n)))
     ELSE IF n = 1 THEN IF toks[1].k = "num" THEN ConvValue(toks[1].n, toks[1].d)
                        ELSE ConvInvalid
     ELSE IF toks[1].s = "(" /\ toks[n].s = ")"
             /\ \A i \in 2..n : DepthBefore(toks, i) >= 1
          THEN ConvEval(SubSeq(toks, 2, n - 1))
     ELSE ConvInvalid

\* the conventional value of the text s, leading and trailing whitespace aside
Conventional(s) == ConvEval(ConvTokens(Strip(s), 1, FALSE))

\* the same for the texts in the syntax of the strict reading
ConventionalStrict(s) == ConvEval(ConvTokens(Strip(s), 1, TRUE))

\* the model's number v is the conventional value c
SameNumber(v, c) == IsExact(v) /\ c.st = "value" /\ v.n * c.d = c.n * v.d

(***************************************************************************)
(* Claims about evaluate_formula, checked under SpecCalc.                  *)
(***************************************************************************)
PassesWhitelist == ReMatch(formula_pattern, Strip(arg))

\* C1 (as claimed): a formula that passes the whitelist and is no arithmetic
\* expression (operators in a row, unbalanced parentheses) ends in the error
\* "Error evaluating formula" and never in a number.
C1_MalformedFormulaIsAnError ==
  (pc = "done" /\ PassesWhitelist /\ Conventional(arg).st = "invalid")
    => outcome = Raised("ValueError", ErrorEvaluating)

\* C3 (as claimed): the validation succeeds exactly when every character of
\* the trimmed formula is in the AllowedCharacterSet, the empty formula
\* included.
C3_ValidationIffOnlyAllowed ==
  pc = "done" =>
    ((outcome # Raised("ValueError", InvalidCharacters)) <=> OnlyAllowed(Strip(arg)))

\* C4 (as claimed): a formula that is an arithmetic expression with a value
\* evaluates to that value.
C4_ConventionalValue ==
  (pc = "done" /\ Conventional(arg).st = "value")
    => (outcome.kind = "return" /\ SameNumber(outcome.value, Conventional(arg)))

\* C4 (amended): a formula that is an arithmetic expression with a value,
\* whose integer literals of several digits do not start with 0 and whose
\* tokens only blanks and tabs separate, evaluates to that value.
C4_ConventionalValueStrict ==
  (pc = "done" /\ ConventionalStrict(arg).st = "value")
    => (outcome.kind = "return" /\ SameNumber(outcome.value, ConventionalStrict(arg)))

\* C4 witness: "100 - 50 * 2 + 10" has returned 10.0
C4_Witness ==
  /\ pc = "done"
  /\ arg = <<"1", "0", "0", " ", "-", " ", "5", "0", " ", "*", " ", "2", " ", "+", " ", "1", "0">>
  /\ ConventionalStrict(arg) = ConvValue(10, 1)
  /\ outcome = Returned(Val("float", 10, 1))

\* C5 (as claimed): a formula with a character outside the
\* AllowedCharacterSet ends in "Formula contains invalid characters" and
\* eval() is never called on it.
C5_DisallowedCharacterNeverEvaluated ==
  (pc = "done" /\ ~ OnlyAllowed(arg))
    => (outcome = Raised("ValueError", InvalidCharacters) /\ evalCalls = 0)

\* C6: a formula that passes the whitelist and whose evaluation divides by
\* zero ends in the error "Error evaluating formula": no number is returned
\* and no other exception leaves the call.
C6_DivisionByZeroIsAnError ==
  (pc = "done" /\ (raised = "ZeroDivisionError" \/ Conventional(arg).st = "undefined"))
    => outcome = Raised("ValueError", ErrorEvaluating)

\* C6 witness: "10 / 0" has raised ZeroDivisionError inside eval() and the
\* call has ended
C6_Witness ==
  /\ pc = "done"
  /\ arg = <<"1", "0", " ", "/", " ", "0">>
  /\ evalCalls = 1
  /\ raised = "ZeroDivisionError"

(***************************************************************************)
(* Claims about contains_math_expression and the split, checked under      *)
(* SpecSplit.                                                              *)
(***************************************************************************)
\* C2 (as claimed): contains_math_expression is true of the sample message
\* "Can you help me solve for x: 2x + 5 = 11".
C2_SampleContainsMath ==
  (spc = "split" /\ round = 1 /\ original = SampleMathQuestion) => found = TRUE

\* C2 (amended): contains_math_expression is false of the sample message
\* "Can you help me solve for x: 2x + 5 = 11": no span of it matches either
\* pattern.
C2_SampleContainsNoMath ==
  (spc = "split" /\ round = 1 /\ original = SampleMathQuestion) => found = FALSE

\* C2 witness: contains_math_expression has returned for the sample message
C2_Witness ==
  /\ spc = "split" /\ round = 1 /\ text = SampleMathQuestion
  /\ ReSearch(<<NumericBinaryOp>>, text) = << >>
  /\ ReSearch(<<Assignment>>, text) = << >>

\* the text t[from:to] without its leading and trailing whitespace, as a span
TrimSpan(t, from, to) ==
  LET keep == {k \in (from + 1)..to : t[k] \notin ReSpace}
  IN IF keep = {} THEN <<from, from>> ELSE <<SetMin(keep) - 1, SetMax(keep)>>

Piece(type, span) == [type |-> type, from |-> span[1], to |-> span[2]]

NonEmptyPiece(type, span) == IF span[1] < span[2] THEN <<Piece(type, span)>> ELSE << >>

\* the segmentation as the specification states it: for the math spans from
\* the k-th on, the trimmed gap before each span when non-empty, the trimmed
\* span, and at last the trimmed text after the last span when non-empty
RECURSIVE Pieces(_, _, _, _)
Pieces(t, spans, k, last) ==
  IF k > Len(spans) THEN NonEmptyPiece("normal", TrimSpan(t, last, Len(t)))
  ELSE NonEmptyPiece("normal", TrimSpan(t, last, spans[k][1]))
       \o <<Piece("math", TrimSpan(t, spans[k][1], spans[k][2]))>>
       \o Pieces(t, spans, k + 1, spans[k][2])

MathContents(segs) == Contents(SelectSeq(segs, LAMBDA g : g.type = "math"))

\* C7: the split returns the pieces of the text in order: each content is
\* non-empty and is the part of the text at its piece's positions, the
\* positions increase without overlap, every math span gives one math
\* segment, a text without math spans gives one normal segment of the trimmed
\* text, and an empty or blank text gives no segment.
C7_SplitReturnsThePieces ==
  spc = "return" =>
    LET spans == ReFindIter(split_math_pattern, text)
        E == Pieces(text, spans, 1, 0)
    IN /\ Len(split_result) = Len(E)
       /\ \A i \in 1..Len(E) :
            /\ i <= Len(split_result)
            /\ split_result[i] = Segment(E[i].type, Slice(text, E[i].from, E[i].to))
            /\ split_result[i].content # << >>
            /\ 0 <= E[i].from /\ E[i].to <= Len(text)
            /\ i < Len(E) => E[i].to <= E[i + 1].from
       /\ Len(MathContents(split_result)) = Len(spans)
       /\ spans = << >> =>
            split_result = IF Strip(text) = << >> THEN << >>
                           ELSE <<Segment("normal", Strip(text))>>
       /\ Strip(text) = << >> => split_result = << >>

\* C7 witness: a text has been split into a normal, a math and a normal
\* segment, the math span with whitespace to trim
C7_Witness ==
  /\ spc = "return"
  /\ Len(split_result) = 3
  /\ split_result[1].type = "normal"
  /\ split_result[2].type = "math"
  /\ split_result[3].type = "normal"
  /\ Len(split_result[2].content) < matches[1][2] - matches[1][1]

\* C8: contains_math_expression(text) is true exactly when the split of the
\* text has a math segment.
C8_ContainsIffMathSegment ==
  spc = "return" => (found <=> \E i \in 1..Len(split_result) : split_result[i].type = "math")

\* C8 witness: a text with a math expression has been tested and split
C8_Witness ==
  /\ spc = "return"
  /\ found
  /\ text = <<"x", " ", "=", " ", "3", " ", "*", " ", "7">>
  /\ split_result = <<Segment("math", text)>>

\* C9 (as claimed): the segmentation of the rejoined contents has the math
\* segments of the first segmentation, in the same order.
C9_ResegmentationKeepsMath ==
  (spc = "return" /\ round = 2) => MathContents(split_result) = MathContents(first_result)

(***************************************************************************)
(* Claims about math_guardrail, checked under SpecGuard.                   *)
(***************************************************************************)
\* the text of the input: the str, or the contents of the items with one
\* blank between two items
RECURSIVE Spaced(_)
Spaced(items) ==
  IF items = << >> THEN << >>
  ELSE IF Len(items) = 1 THEN ItemText(items[1])
  ELSE ItemText(items[1]) \o <<" ">> \o Spaced(Tail(items))

NormalisedInput == IF input.kind = "list" THEN Spaced(input.items) ELSE input.text

\* C10: when the normalised input contains a math expression the guardrail
\* returns with the tripwire triggered and the guardrail agent has not run;
\* otherwise the agent has run exactly once and the tripwire is its verdict.
\* The agent never runs twice.
C10_RegexShortCircuitsTheAgent ==
  /\ agentRuns <= 1
  /\ gpc = "done" =>
       IF contains_math_expression(NormalisedInput)
       THEN tripwire_triggered /\ agentRuns = 0
       ELSE agentRuns = 1 /\ tripwire_triggered = is_math_homework

\* C10 witness: a list of two items, neither a math expression, whose joined
\* contents are one, has tripped the guardrail without the agent
C10_Witness ==
  /\ gpc = "done"
  /\ input.kind = "list"
  /\ Len(input.items) = 2
  /\ \A i \in 1..2 : ~ contains_math_expression(ItemText(input.items[i]))
  /\ tripwire_triggered
  /\ agentRuns = 0

(***************************************************************************)
(* Claims about the run loops, checked under SpecV0 and SpecV1.            *)
(***************************************************************************)
\* the contents of the first k messages with one blank between two of them
RECURSIVE JoinedContent(_, _)
JoinedContent(msgs, k) ==
  IF k = 0 THEN << >>
  ELSE IF k = 1 THEN msgs[1].content
  ELSE JoinedContent(msgs, k - 1) \o <<" ">> \o msgs[k].content

\* C11: in the v0 loop, once a run was refused by the regex (the joined
\* content of the conversation contained a math expression), the message of
\* that run stays in input_data followed by the refusal, and every later run
\* of the session is refused by the regex as well, whatever was entered.
C11_RegexRefusalIsSticky ==
  \A i \in 1..Len(printed) :
    printed[i].by = "regex" =>
      /\ lpc \in {"prompt", "exit"} =>
           /\ Len(input_data) >= 2 * i
           /\ input_data[2 * i - 1] = Message("user", printed[i].said)
           /\ input_data[2 * i] = Message("assistant", RefusalMessage)
           /\ contains_math_expression(JoinedContent(input_data, 2 * i - 1))
      /\ \A j \in (i + 1)..Len(printed) :
           /\ printed[j].by = "regex"
           /\ printed[j].text = RefusalMessage

\* C11 witness: after a run refused by the regex, a message without any math
\* expression was entered and refused by the regex too
C11_Witness ==
  /\ lpc = "prompt"
  /\ Len(printed) >= 2
  /\ printed[1].by = "regex"
  /\ ~ contains_math_expression(printed[2].said)
  /\ printed[2].by = "regex"
  /\ printed[2].text = RefusalMessage

\* C12: in the v1 loop the run of a part of type "math" ends with the
\* tripwire triggered by the regex, the guardrail agent not consulted: the
\* content of every Math segment contains a math expression.
C12_MathPartTripsByRegex ==
  (lpc = "guardrail" /\ gpc = "done" /\ parts[part].type = "math") =>
    /\ contains_math_expression(parts[part].content)
    /\ tripwire_triggered
    /\ agentRuns = 0

====
